---- MODULE Spec2Model ----
(***************************************************************************)
(* Model of `abctl local install` (internal/cmd/local/local_install.go).   *)
(*                                                                         *)
(* One invocation of the command runs PreRunE and then RunE.  RunE is a    *)
(* straight line of blocking calls to collaborators (cluster provider,     *)
(* docker client, installer); the model has one action per blocking call,  *)
(* each action running the code up to the next blocking call.  The outcome *)
(* of a collaborator call (error or not) is chosen by the environment.     *)
(* Invocations follow one another; the cluster (the world) persists from   *)
(* one to the next, everything else is per invocation.                     *)
(*                                                                         *)
(* A Go string that the code takes apart (a volume spec) is a sequence of  *)
(* one-character strings; a Go string that is only compared or copied is a *)
(* TLA+ string.  A Go error is the sequence of its message parts, outermost *)
(* first: <<>> is nil, fmt.Errorf("x: %w", e) is <<"x">> \o e.             *)
(*                                                                         *)
(* Spec is the command; SpecCancel is the command with cmd.Context()       *)
(* cancelled at any point of an invocation; SpecFn applies                 *)
(* parseVolumeMounts, envOverride and the option assembly on their own to  *)
(* every input of a bounded set.                                           *)
(***************************************************************************)
EXTENDS Integers, Sequences, FiniteSets, TLC

\* ------------------------------------------------------------------ bounds
\* Ports the user can request and a cluster can be bound to: 1..NumPorts.
NumPorts == 2
\* Longest list of --volume specs given to one invocation.
MaxMounts == 2

Ports == 1..NumPorts

\* Volume specs given on the command line: one well-formed, one with no
\* separator, one with two separators.
SpecOk == <<"h", ":", "g">>
SpecNoSep == <<"h">>
SpecTwoSep == <<"h", ":", "g", ":">>
MountSpecs == {SpecOk, SpecNoSep, SpecTwoSep}

RECURSIVE SeqsUpTo(_, _)
SeqsUpTo(S, n) ==
    IF n = 0 THEN {<<>>}
    ELSE LET shorter == SeqsUpTo(S, n - 1)
         IN shorter \cup {Append(q, x) : q \in {r \in shorter : Len(r) = n - 1}, x \in S}

MountLists == SeqsUpTo(MountSpecs, MaxMounts)

\* Longest volume spec given to parseVolumeMounts applied on its own.
MaxSpecLen == 3
\* Any volume spec over a path character and the separator, and any list of
\* them: empty sides, no separator and several separators are all there.
AnyChars == {"h", ":"}
AnySpecs == SeqsUpTo(AnyChars, MaxSpecLen)
AnyMountLists == SeqsUpTo(AnySpecs, MaxMounts)

\* Values of a string flag or environment variable that is only copied and
\* tested for emptiness.
FlagStrings == {"", "flag"}
EnvStrings == {"", "env"}
\* --chart-version: the default "latest" and an explicit version.
ChartVersions == {"latest", "1.0.0"}
\* The default of --docker-server (line 210).
DefaultDockerServer == "https://index.docker.io/v1/"
DockerServers == {DefaultDockerServer}
\* Inputs of the option assembly applied on its own: chart versions that
\* differ from "latest" in case only, the empty one, and a server flag that is
\* not the default; values a field can hold before envOverride.
AnyChartVersions == {"latest", "Latest", "LATEST", "", "1.0.0"}
AnyDockerServers == {DefaultDockerServer, "flag"}
AnyStrings == {"", "flag", "env"}

\* ------------------------------------------------------------------- state
VARIABLES
    providerName,           \* provider.Name of the provider given to NewCmdInstall
    clusterExists,          \* the world: whether the named cluster exists
    clusterPort,            \* the world: the port the cluster is bound to, 0 if none
    createdWith,            \* history: <<>> or <<the flags of the invocation that created the cluster>>
    pc,                     \* position of the current invocation
    cluster,                \* result of provider.Cluster(): "none" before it, "exists" or "absent"
    requestedPort,          \* history: the --port value of the current invocation
    flagPort,
    flagExtraVolumeMounts,
    flagChartVersion,
    dockerClient,           \* package-level docker client: "nil" or "client"
    extraVolumeMounts,      \* result of parseVolumeMounts handed to cluster.Create
    afterCreate,            \* history: the invocation started after a successful creation
    opts,                   \* local.InstallOpts handed to lc.Install
    err,                    \* error returned by the invocation, <<>> is nil
    calls,                  \* history: collaborator calls of the current invocation
    warnings,               \* history: pterm.Warning lines of the current invocation
    telemetry,              \* what telClient.Wrap recorded for telemetry.Install
    fnArgs,                 \* arguments of the last function applied on its own
    fnResult                \* its result

vars == <<providerName, clusterExists, clusterPort, createdWith, pc, cluster, requestedPort,
          flagPort, flagExtraVolumeMounts, flagChartVersion, dockerClient,
          extraVolumeMounts, afterCreate, opts, err, calls, warnings, telemetry,
          fnArgs, fnResult>>

\* The application of a function on its own: untouched by an invocation.
fn == <<fnArgs, fnResult>>
NoFn == [fn |-> "none"]

world == <<providerName, clusterExists, clusterPort, createdWith>>
flags == <<requestedPort, flagExtraVolumeMounts, afterCreate>>

Kind == "kind"
ProviderNames == {Kind, "other"}

NoOpts == [HelmChartVersion |-> "", DockerServer |-> "", DockerUser |-> "",
           DockerPass |-> "", DockerEmail |-> ""]

\* A collaborator call: its port and mounts (argument or result) and the error
\* it returned.
Call(op, port, mounts, ret) == [op |-> op, port |-> port, mounts |-> mounts, ret |-> ret]

\* Errors of the collaborators.
ErrDockerInstalled == <<"ErrDockerInstalled">>
ErrPort == <<"ErrPort">>
ErrCluster == <<"ErrCluster">>
ErrDockerNew == <<"ErrDockerNew">>
ErrDockerPort == <<"ErrDockerPort">>
ErrCreate == <<"ErrCreate">>
ErrLocalNew == <<"ErrLocalNew">>
ErrInstall == <<"ErrInstall">>
\* ctx.Err() of the cancelled command context.
ErrCanceled == <<"context canceled">>

\* cmd.Context() is cancelled: the cancellation is an entry of the history.
Cancelled == \E i \in DOMAIN calls : calls[i].op = "Cancel"

\* The errors a call that is given cmd.Context() can return: errs, and once
\* the context is cancelled the cancellation error alone.
WithContext(errs) == IF Cancelled THEN {ErrCanceled} ELSE errs

\* telClient.Wrap(ctx, telemetry.Install, fn): started when RunE is entered,
\* success or failure when fn returns.
TelemetryAfter(nextPc, e) ==
    IF nextPc # "done" THEN "started"
    ELSE IF e = <<>> THEN "success" ELSE "failed"

Init ==
    /\ providerName \in ProviderNames
    /\ clusterExists \in BOOLEAN
    /\ clusterPort \in (IF clusterExists THEN Ports ELSE {0})
    /\ createdWith = <<>>
    /\ pc = "idle"
    /\ cluster = "none"
    /\ requestedPort = 0
    /\ flagPort = 0
    /\ flagExtraVolumeMounts = <<>>
    /\ flagChartVersion = ""
    /\ dockerClient = "nil"
    /\ extraVolumeMounts = <<>>
    /\ afterCreate = FALSE
    /\ opts = NoOpts
    /\ err = <<>>
    /\ calls = <<>>
    /\ warnings = <<>>
    /\ telemetry = "none"
    /\ fnArgs = NoFn
    /\ fnResult = NoFn

\* A new invocation of the command: cobra binds the flags, then runs PreRunE.
Invoke ==
    /\ pc = "idle"
    /\ \E port \in Ports, mounts \in MountLists :
        /\ requestedPort' = port
        /\ flagPort' = port
        /\ flagExtraVolumeMounts' = mounts
    /\ afterCreate' = (createdWith # <<>>)
    /\ pc' = "PreRunE"
    /\ UNCHANGED <<world, cluster, flagChartVersion, dockerClient, extraVolumeMounts,
                   opts, err, calls, warnings, telemetry, fn>>

\* The process of a finished invocation exits: nothing but the cluster outlives it.
Exit ==
    /\ pc = "done"
    /\ pc' = "idle"
    /\ cluster' = "none"
    /\ requestedPort' = 0
    /\ flagPort' = 0
    /\ flagExtraVolumeMounts' = <<>>
    /\ flagChartVersion' = ""
    /\ dockerClient' = "nil"
    /\ extraVolumeMounts' = <<>>
    /\ afterCreate' = FALSE
    /\ opts' = NoOpts
    /\ err' = <<>>
    /\ calls' = <<>>
    /\ warnings' = <<>>
    /\ telemetry' = "none"
    /\ UNCHANGED <<world, fn>>

Return(e) ==
    /\ err' = e
    /\ pc' = "done"

Wrap(msg, e) == <<msg>> \o e

\* ------------------------------------------------------- pure functions
\* strings.Split(s, ":"): the parts of s between separators, one more than
\* the number of separators.
RECURSIVE SplitFrom(_, _, _)
SplitFrom(s, i, cur) ==
    IF i > Len(s) THEN <<cur>>
    ELSE IF s[i] = ":" THEN <<cur>> \o SplitFrom(s, i + 1, <<>>)
    ELSE SplitFrom(s, i + 1, Append(cur, s[i]))

Split(s) == SplitFrom(s, 1, <<>>)

ZeroMount == [HostPath |-> <<>>, ContainerPath |-> <<>>]

ErrVolume(spec) ==
    <<"volume">> \o spec \o <<"is not a valid volume spec, must be <HOST_PATH>:<GUEST_PATH>">>

\* The loop of parseVolumeMounts from index i on; mounts is the slice so far.
\* isNil tells a nil slice from an empty one.
RECURSIVE ParseLoop(_, _, _)
ParseLoop(specs, i, mounts) ==
    IF i > Len(specs) THEN [mounts |-> mounts, isNil |-> FALSE, err |-> <<>>]
    ELSE LET parts == Split(specs[i])
         IN IF Len(parts) # 2
            THEN [mounts |-> <<>>, isNil |-> TRUE, err |-> ErrVolume(specs[i])]
            ELSE ParseLoop(specs, i + 1,
                           [mounts EXCEPT ![i] = [HostPath |-> parts[1],
                                                  ContainerPath |-> parts[2]]])

\* Mutant: a spec is rejected only when it has fewer than two parts.
RECURSIVE ParseLoopAtLeastTwo(_, _, _)
ParseLoopAtLeastTwo(specs, i, mounts) ==
    IF i > Len(specs) THEN [mounts |-> mounts, isNil |-> FALSE, err |-> <<>>]
    ELSE LET parts == Split(specs[i])
         IN IF Len(parts) < 2
            THEN [mounts |-> <<>>, isNil |-> TRUE, err |-> ErrVolume(specs[i])]
            ELSE ParseLoopAtLeastTwo(specs, i + 1,
                                     [mounts EXCEPT ![i] = [HostPath |-> parts[1],
                                                            ContainerPath |-> parts[2]]])

parseVolumeMountsAtLeastTwo(specs) ==
    ParseLoopAtLeastTwo(specs, 1, [i \in 1..Len(specs) |-> ZeroMount])

\* Mutant: the two sides of a spec are assigned the wrong way round.
parseVolumeMountsSwapped(specs) ==
    LET r == ParseLoop(specs, 1, [i \in 1..Len(specs) |-> ZeroMount])
    IN [r EXCEPT !.mounts = [i \in DOMAIN r.mounts |->
                               [HostPath |-> r.mounts[i].ContainerPath,
                                ContainerPath |-> r.mounts[i].HostPath]]]

\* Mutant: a spec with an empty side is rejected as well.
RECURSIVE ParseLoopNonEmpty(_, _, _)
ParseLoopNonEmpty(specs, i, mounts) ==
    IF i > Len(specs) THEN [mounts |-> mounts, isNil |-> FALSE, err |-> <<>>]
    ELSE LET parts == Split(specs[i])
         IN IF Len(parts) # 2 \/ <<>> \in {parts[j] : j \in DOMAIN parts}
            THEN [mounts |-> <<>>, isNil |-> TRUE, err |-> ErrVolume(specs[i])]
            ELSE ParseLoopNonEmpty(specs, i + 1,
                                   [mounts EXCEPT ![i] = [HostPath |-> parts[1],
                                                          ContainerPath |-> parts[2]]])

parseVolumeMountsNonEmpty(specs) ==
    ParseLoopNonEmpty(specs, 1, [i \in 1..Len(specs) |-> ZeroMount])

\* Mutant: the error comes with the mounts parsed before the malformed spec.
RECURSIVE ParseLoopPartial(_, _, _)
ParseLoopPartial(specs, i, mounts) ==
    IF i > Len(specs) THEN [mounts |-> mounts, isNil |-> FALSE, err |-> <<>>]
    ELSE LET parts == Split(specs[i])
         IN IF Len(parts) # 2
            THEN [mounts |-> SubSeq(mounts, 1, i - 1), isNil |-> FALSE,
                  err |-> ErrVolume(specs[i])]
            ELSE ParseLoopPartial(specs, i + 1,
                                  [mounts EXCEPT ![i] = [HostPath |-> parts[1],
                                                         ContainerPath |-> parts[2]]])

parseVolumeMountsPartial(specs) ==
    ParseLoopPartial(specs, 1, [i \in 1..Len(specs) |-> ZeroMount])

parseVolumeMounts(specs) ==
    ParseLoop(specs, 1, [i \in 1..Len(specs) |-> ZeroMount])

\* Mutant: the environment only fills a field that is empty.
envOverrideIfEmpty(original, v) == IF original = "" THEN v ELSE original

\* Mutant: the comparison with "latest" ignores case.
NormalizeChartVersionAnyCase(v) == IF v \in {"latest", "Latest", "LATEST"} THEN "" ELSE v

\* envOverride: the value of *original after the call, v being os.Getenv(env).
envOverride(original, v) == IF v # "" THEN v ELSE original

\* The chart version handed to the installer.
NormalizeChartVersion(v) == IF v = "latest" THEN "" ELSE v

\* Lines 108-119: the port and the warnings after dockerClient.Port returned
\* (port, portErr) for the provided port.
FallbackWarning == [kind |-> "port_unknown", existing |-> 0, provided |-> 0]
ConflictWarning(existing, provided) ==
    [kind |-> "port_conflict", existing |-> existing, provided |-> provided]

\* Mutant: on a conflict the warning is printed but the provided port is kept.
ReconcilePortProvidedWins(providedPort, port, portErr) ==
    LET afterErr == IF portErr # <<>> THEN providedPort ELSE port
    IN [flagPort |-> providedPort,
        warnings |-> (IF portErr # <<>> THEN <<FallbackWarning>> ELSE <<>>)
                     \o (IF providedPort # afterErr
                         THEN <<ConflictWarning(afterErr, providedPort)>>
                         ELSE <<>>)]

\* Mutant: line 114 is missing, the value returned with the error is kept.
ReconcilePortNoReset(providedPort, port, portErr) ==
    [flagPort |-> port,
     warnings |-> (IF portErr # <<>> THEN <<FallbackWarning>> ELSE <<>>)
                  \o (IF providedPort # port
                      THEN <<ConflictWarning(port, providedPort)>>
                      ELSE <<>>)]

\* Mutant: the conflict warning is printed whenever the query succeeded.
ReconcilePortWarnsOnSuccess(providedPort, port, portErr) ==
    LET afterErr == IF portErr # <<>> THEN providedPort ELSE port
    IN [flagPort |-> afterErr,
        warnings |-> IF portErr # <<>> THEN <<FallbackWarning>>
                     ELSE <<ConflictWarning(afterErr, providedPort)>>]

ReconcilePort(providedPort, port, portErr) ==
    LET afterErr == IF portErr # <<>> THEN providedPort ELSE port
    IN [flagPort |-> afterErr,
        warnings |-> (IF portErr # <<>> THEN <<FallbackWarning>> ELSE <<>>)
                     \o (IF providedPort # afterErr
                         THEN <<ConflictWarning(afterErr, providedPort)>>
                         ELSE <<>>)]

\* -------------------------------------------------------- collaborators
\* portAvailable: an error when the port is not free.  A port may be bound by
\* any program, the running cluster among them; the port of an existing
\* cluster whose container is stopped is free.
PortAvailableResults(port) == {ErrPort, <<>>}

\* dockerClient.Port on the control-plane container: the port the cluster is
\* bound to, or an error with any value.
DockerPortResults ==
    IF Cancelled THEN {[port |-> 0, err |-> ErrCanceled]}
    ELSE {[port |-> clusterPort, err |-> <<>>]}
            \cup {[port |-> p, err |-> ErrDockerPort] : p \in Ports \cup {0}}

\* ---------------------------------------------------------------- PreRunE
\* Lines 63-82.  dockerInstalled may leave the docker client connected.
PreRunE ==
    /\ pc = "PreRunE"
    /\ \E dockerErr \in WithContext({<<>>, ErrDockerInstalled}), client \in {"nil", "client"} :
        IF dockerErr # <<>>
        THEN /\ calls' = Append(calls, Call("dockerInstalled", 0, <<>>, dockerErr))
             /\ Return(Wrap("unable to determine docker installation status", dockerErr))
             /\ UNCHANGED dockerClient
        ELSE /\ dockerClient' = client
             /\ \E portErr \in WithContext(PortAvailableResults(flagPort)) :
                /\ calls' = calls \o <<Call("dockerInstalled", 0, <<>>, <<>>),
                                       Call("portAvailable", flagPort, <<>>, portErr)>>
                /\ IF portErr # <<>>
                   THEN Return(Wrap("port is not available", portErr))
                   ELSE /\ pc' = "Cluster"
                        /\ UNCHANGED err
    /\ UNCHANGED <<world, flags, cluster, flagPort, flagChartVersion, extraVolumeMounts,
                   opts, warnings, telemetry, fn>>

\* ------------------------------------------------------------------- RunE
\* Lines 87-131 after provider.Cluster() returned clusterErr, exists being
\* cluster.Exists(): where the invocation goes next, up to the next blocking
\* call.
\* Mutant: the error of the existence query is not checked.
AfterClusterErrIgnored(clusterErr, exists) ==
    IF exists
    THEN [pc |-> IF providerName = Kind
                 THEN (IF dockerClient = "nil" THEN "DockerNew" ELSE "DockerPort")
                 ELSE "LocalNew",
          err |-> <<>>, cluster |-> "exists", mounts |-> <<>>]
    ELSE LET parsed == parseVolumeMounts(flagExtraVolumeMounts)
         IN IF parsed.err # <<>>
            THEN [pc |-> "done", err |-> parsed.err, cluster |-> "absent", mounts |-> <<>>]
            ELSE [pc |-> "Create", err |-> <<>>, cluster |-> "absent",
                  mounts |-> parsed.mounts]

\* Mutant: the port of an existing cluster is read whatever the provider.
AfterClusterAnyProvider(clusterErr, exists) ==
    IF clusterErr # <<>>
    THEN [pc |-> "done", err |-> clusterErr, cluster |-> "none", mounts |-> <<>>]
    ELSE IF exists
    THEN [pc |-> IF dockerClient = "nil" THEN "DockerNew" ELSE "DockerPort",
          err |-> <<>>, cluster |-> "exists", mounts |-> <<>>]
    ELSE LET parsed == parseVolumeMounts(flagExtraVolumeMounts)
         IN IF parsed.err # <<>>
            THEN [pc |-> "done", err |-> parsed.err, cluster |-> "absent", mounts |-> <<>>]
            ELSE [pc |-> "Create", err |-> <<>>, cluster |-> "absent",
                  mounts |-> parsed.mounts]

\* Mutant: the volume specs are parsed before the existence of the cluster
\* is looked at.
AfterClusterParsesFirst(clusterErr, exists) ==
    LET parsed == parseVolumeMounts(flagExtraVolumeMounts)
        found == IF exists THEN "exists" ELSE "absent"
    IN IF clusterErr # <<>>
       THEN [pc |-> "done", err |-> clusterErr, cluster |-> "none", mounts |-> <<>>]
       ELSE IF parsed.err # <<>>
       THEN [pc |-> "done", err |-> parsed.err, cluster |-> found, mounts |-> <<>>]
       ELSE IF exists
       THEN [pc |-> IF providerName = Kind
                    THEN (IF dockerClient = "nil" THEN "DockerNew" ELSE "DockerPort")
                    ELSE "LocalNew",
             err |-> <<>>, cluster |-> "exists", mounts |-> parsed.mounts]
       ELSE [pc |-> "Create", err |-> <<>>, cluster |-> "absent", mounts |-> parsed.mounts]

AfterCluster(clusterErr, exists) ==
    IF clusterErr # <<>>
    THEN [pc |-> "done", err |-> clusterErr, cluster |-> "none", mounts |-> <<>>]
    ELSE IF exists
    THEN [pc |-> IF providerName = Kind
                 THEN (IF dockerClient = "nil" THEN "DockerNew" ELSE "DockerPort")
                 ELSE "LocalNew",
          err |-> <<>>, cluster |-> "exists", mounts |-> <<>>]
    ELSE LET parsed == parseVolumeMounts(flagExtraVolumeMounts)
         IN IF parsed.err # <<>>
            THEN [pc |-> "done", err |-> parsed.err, cluster |-> "absent", mounts |-> <<>>]
            ELSE [pc |-> "Create", err |-> <<>>, cluster |-> "absent",
                  mounts |-> parsed.mounts]

ProviderCluster ==
    /\ pc = "Cluster"
    /\ \E clusterErr \in {<<>>, ErrCluster} :
        LET next == AfterCluster(clusterErr, clusterExists)
        IN /\ calls' = Append(calls, Call("Cluster", 0, <<>>, clusterErr))
           /\ pc' = next.pc
           /\ err' = next.err
           /\ cluster' = next.cluster
           /\ extraVolumeMounts' = next.mounts
    /\ telemetry' = TelemetryAfter(pc', err')
    /\ UNCHANGED <<world, flags, flagPort, flagChartVersion, dockerClient, opts, warnings, fn>>

\* Mutant: the error of docker.New is not checked.
AfterDockerNewErrIgnored(newErr) ==
    [pc |-> "DockerPort", err |-> <<>>, dockerClient |-> "client", warnings |-> <<>>]

\* Lines 100-106 after docker.New returned newErr.
AfterDockerNew(newErr) ==
    IF newErr # <<>>
    THEN [pc |-> "done", err |-> Wrap("unable to connect to docker", newErr),
          dockerClient |-> "nil", warnings |-> <<>>]
    ELSE [pc |-> "DockerPort", err |-> <<>>, dockerClient |-> "client", warnings |-> <<>>]

DockerNew ==
    /\ pc = "DockerNew"
    /\ \E newErr \in WithContext({<<>>, ErrDockerNew}) :
        LET next == AfterDockerNew(newErr)
        IN /\ calls' = Append(calls, Call("DockerNew", 0, <<>>, newErr))
           /\ pc' = next.pc
           /\ err' = next.err
           /\ dockerClient' = next.dockerClient
           /\ warnings' = warnings \o next.warnings
    /\ telemetry' = TelemetryAfter(pc', err')
    /\ UNCHANGED <<world, flags, cluster, flagPort, flagChartVersion, extraVolumeMounts, opts,
                   fn>>

\* Lines 108-122: the port of the existing cluster is read and reconciled.
DockerPort ==
    /\ pc = "DockerPort"
    /\ \E r \in DockerPortResults :
        LET rec == ReconcilePort(flagPort, r.port, r.err)
        IN /\ calls' = Append(calls, Call("Port", r.port, <<>>, r.err))
           /\ flagPort' = rec.flagPort
           /\ warnings' = warnings \o rec.warnings
    /\ pc' = "LocalNew"
    /\ telemetry' = TelemetryAfter(pc', err)
    /\ UNCHANGED <<world, flags, cluster, flagChartVersion, dockerClient, extraVolumeMounts,
                   opts, err, fn>>

\* Lines 133-137 after cluster.Create returned createErr.
\* Mutant: a failed creation is reported but the pipeline goes on.
AfterCreateErrIgnored(createErr) == [pc |-> "LocalNew", err |-> <<>>]

AfterCreate(createErr) ==
    IF createErr # <<>>
    THEN [pc |-> "done", err |-> createErr]
    ELSE [pc |-> "LocalNew", err |-> <<>>]

\* Lines 133-137: the cluster is created with the port and the parsed mounts.
\* A cluster that was created exists from then on, bound to that port.
ClusterCreate ==
    /\ pc = "Create"
    /\ \E createErr \in {<<>>, ErrCreate} :
        LET next == AfterCreate(createErr)
        IN /\ calls' = Append(calls, Call("Create", flagPort, extraVolumeMounts, createErr))
           /\ pc' = next.pc
           /\ err' = next.err
           /\ IF createErr # <<>>
              THEN UNCHANGED <<clusterExists, clusterPort, createdWith>>
              ELSE /\ clusterExists' = TRUE
                   /\ clusterPort' = flagPort
                   /\ createdWith' = <<[port |-> requestedPort,
                                        mounts |-> flagExtraVolumeMounts]>>
    /\ telemetry' = TelemetryAfter(pc', err')
    /\ UNCHANGED <<providerName, flags, cluster, flagPort, flagChartVersion, dockerClient,
                   extraVolumeMounts, opts, warnings, fn>>

\* The docker flags the flag layer accepts: --docker-username, --docker-password
\* and --docker-email are given together or not at all (line 219); a flag that
\* is given may be given empty.
DockerFlags ==
    {[set |-> FALSE, user |-> "", pass |-> "", email |-> ""]}
        \cup {[set |-> TRUE, user |-> u, pass |-> p, email |-> e] :
                u \in FlagStrings, p \in FlagStrings, e \in FlagStrings}

Environments == [server : EnvStrings, user : EnvStrings, pass : EnvStrings, email : EnvStrings]

\* Lines 150-175: the options built from the flags and the environment env.
InstallOpts(chartVersion, server, f, env) ==
    [HelmChartVersion |-> NormalizeChartVersion(chartVersion),
     DockerServer |-> envOverride(server, env.server),
     DockerUser |-> envOverride(f.user, env.user),
     DockerPass |-> envOverride(f.pass, env.pass),
     DockerEmail |-> envOverride(f.email, env.email)]

\* Lines 140-175: the installer is initialised with the port, then the
\* options are assembled from the flags and the environment.
LocalNew ==
    /\ pc = "LocalNew"
    /\ \E newErr \in {<<>>, ErrLocalNew} :
        /\ calls' = Append(calls, Call("LocalNew", flagPort, <<>>, newErr))
        /\ IF newErr # <<>>
           THEN /\ Return(Wrap("unable to initialize local command", newErr))
                /\ UNCHANGED <<flagChartVersion, opts>>
           ELSE /\ \E chartVersion \in ChartVersions, server \in DockerServers,
                      f \in DockerFlags, env \in Environments :
                    /\ flagChartVersion' = chartVersion
                    /\ opts' = InstallOpts(chartVersion, server, f, env)
                /\ pc' = "Install"
                /\ UNCHANGED err
    /\ telemetry' = TelemetryAfter(pc', err')
    /\ UNCHANGED <<world, flags, cluster, flagPort, dockerClient, extraVolumeMounts, warnings,
                   fn>>

\* Lines 177-188: the installer is run.
Install ==
    /\ pc = "Install"
    /\ \E installErr \in WithContext({<<>>, ErrInstall}) :
        /\ calls' = Append(calls, Call("Install", flagPort, <<>>, installErr))
        /\ Return(installErr)
    /\ telemetry' = TelemetryAfter(pc', err')
    /\ UNCHANGED <<world, flags, cluster, flagPort, flagChartVersion, dockerClient,
                   extraVolumeMounts, opts, warnings, fn>>

Next ==
    \/ Invoke
    \/ PreRunE
    \/ ProviderCluster
    \/ DockerNew
    \/ DockerPort
    \/ ClusterCreate
    \/ LocalNew
    \/ Install
    \/ Exit

Spec == Init /\ [][Next]_vars

\* --------------------------------------------------------- cancellation
\* cmd.Context() is cancelled while the invocation runs, between two of its
\* blocking calls or before the first.
Cancel ==
    /\ pc \notin {"idle", "done"}
    /\ ~Cancelled
    /\ calls' = Append(calls, Call("Cancel", 0, <<>>, <<>>))
    /\ UNCHANGED <<world, flags, pc, cluster, flagPort, flagChartVersion, dockerClient,
                   extraVolumeMounts, opts, err, warnings, telemetry, fn>>

NextCancel ==
    \/ Next
    \/ Cancel

SpecCancel == Init /\ [][NextCancel]_vars

\* ------------------------------------------- functions applied on their own
\* Everything an invocation reads or writes.
invocation == <<world, flags, pc, cluster, flagPort, flagChartVersion, dockerClient,
                extraVolumeMounts, opts, err, calls, warnings, telemetry>>

\* Lines 233-248: parseVolumeMounts applied to any list of specs.
ApplyParseVolumeMounts ==
    /\ fnArgs = NoFn
    /\ \E specs \in AnyMountLists :
        /\ fnArgs' = [fn |-> "parseVolumeMounts", specs |-> specs]
        /\ fnResult' = parseVolumeMounts(specs)
    /\ UNCHANGED invocation

\* Lines 224-231: envOverride applied to a field, and applied again to the
\* field it left, the environment being the same.
ApplyEnvOverride ==
    /\ fnArgs = NoFn
    /\ \E original \in AnyStrings, v \in AnyStrings :
        /\ fnArgs' = [fn |-> "envOverride", original |-> original, v |-> v]
        /\ fnResult' = [once |-> envOverride(original, v),
                        twice |-> envOverride(envOverride(original, v), v)]
    /\ UNCHANGED invocation

\* Lines 150-175: the options assembled from any flags and environment.
ApplyInstallOpts ==
    /\ fnArgs = NoFn
    /\ \E chartVersion \in AnyChartVersions, server \in AnyDockerServers,
          f \in DockerFlags, env \in Environments :
        /\ fnArgs' = [fn |-> "InstallOpts", chartVersion |-> chartVersion,
                      server |-> server, flags |-> f, env |-> env]
        /\ fnResult' = InstallOpts(chartVersion, server, f, env)
    /\ UNCHANGED invocation

\* The result is dropped; another function can be applied.
Forget ==
    /\ fnArgs # NoFn
    /\ fnArgs' = NoFn
    /\ fnResult' = NoFn
    /\ UNCHANGED invocation

NextFn ==
    \/ ApplyParseVolumeMounts
    \/ ApplyEnvOverride
    \/ ApplyInstallOpts
    \/ Forget

SpecFn == Init /\ [][NextFn]_vars


\* ============================================================== properties
CallsOf(op) == SelectSeq(calls, LAMBDA c : c.op = op)
Called(op) == \E i \in DOMAIN calls : calls[i].op = op
Succeeded(op) == \E i \in DOMAIN calls : calls[i].op = op /\ calls[i].ret = <<>>
ConflictWarnings == SelectSeq(warnings, LAMBDA w : w.kind = "port_conflict")
FallbackWarnings == SelectSeq(warnings, LAMBDA w : w.kind = "port_unknown")

\* The invocation is at or past the initialisation of the installer, it has
\* not returned before it, and the installer is initialised and run with
\* `port` and no other.
ReachesInstallWith(port) ==
    /\ pc \in {"LocalNew", "Install", "done"}
    /\ flagPort = port
    /\ pc # "LocalNew" => Called("LocalNew")
    /\ (pc = "done" /\ Succeeded("LocalNew")) => Called("Install")
    /\ \A i \in DOMAIN calls :
        calls[i].op \in {"LocalNew", "Install"} => calls[i].port = port

\* A volume spec read without strings.Split: the number of separators in it,
\* and for a spec with one separator the text before and after it.
SeparatorCount(spec) == Cardinality({i \in DOMAIN spec : spec[i] = ":"})
WellFormed(spec) == SeparatorCount(spec) = 1
ExpectedMount(spec) ==
    LET k == CHOOSE i \in DOMAIN spec : spec[i] = ":"
    IN [HostPath |-> SubSeq(spec, 1, k - 1), ContainerPath |-> SubSeq(spec, k + 1, Len(spec))]
FirstMalformed(specs) ==
    specs[CHOOSE i \in DOMAIN specs :
            /\ ~WellFormed(specs[i])
            /\ \A j \in 1..(i - 1) : WellFormed(specs[j])]

\* C1: when the port query on the existing kind cluster succeeds with a port P
\* other than the requested port R, the cluster is not created, exactly one
\* conflict warning naming P and R is printed, the invocation does not return
\* before the installer, and the installer is initialised and run with P.
C1_PortConflictExistingWins ==
    \A i \in DOMAIN calls :
        (calls[i].op = "Port" /\ calls[i].ret = <<>> /\ calls[i].port # requestedPort)
            => /\ cluster = "exists"
               /\ providerName = Kind
               /\ ~Called("Create")
               /\ ConflictWarnings = <<ConflictWarning(calls[i].port, requestedPort)>>
               /\ ReachesInstallWith(calls[i].port)

C1_Witness ==
    /\ pc = "done"
    /\ err = <<>>
    /\ Succeeded("Install")
    /\ \E i \in DOMAIN calls :
        calls[i].op = "Port" /\ calls[i].ret = <<>> /\ calls[i].port # requestedPort

\* C2: when the port query returns an error, whatever port comes with it, the
\* installer gets the requested port, the fallback warning is printed once and
\* no conflict warning, and the invocation does not return before the installer.
C2_PortQueryFailsOpen ==
    \A i \in DOMAIN calls :
        (calls[i].op = "Port" /\ calls[i].ret # <<>>)
            => /\ ReachesInstallWith(requestedPort)
               /\ FallbackWarnings = <<FallbackWarning>>
               /\ ConflictWarnings = <<>>

C2_Witness ==
    /\ pc = "done"
    /\ err = <<>>
    /\ Succeeded("Install")
    /\ \E i \in DOMAIN calls :
        /\ calls[i].op = "Port"
        /\ calls[i].ret # <<>>
        /\ calls[i].port \in Ports \ {requestedPort}

\* C3: when the docker client cannot be connected during port reconciliation
\* the invocation does not fail: it falls back to the requested port with a
\* warning and still reaches the installer.
C3_DockerUnreachableFailsOpen ==
    \A i \in DOMAIN calls :
        (calls[i].op = "DockerNew" /\ calls[i].ret # <<>>)
            => /\ ReachesInstallWith(requestedPort)
               /\ FallbackWarnings = <<FallbackWarning>>

\* C4: when the cluster already exists a failed port-availability check does
\* not end the invocation: the existence query (and with it validation and
\* install) is still reached.
C4_BoundPortGatesOnlyCreatePath ==
    \A i \in DOMAIN calls :
        (calls[i].op = "portAvailable" /\ calls[i].ret # <<>> /\ clusterExists)
            => ~(pc = "done" /\ ~Called("Cluster"))

\* C5: when the existence query returns an error the invocation returns that
\* error, and neither cluster creation, nor docker.New, nor the port query, nor
\* the installer is called in that invocation.
C5_ExistenceErrorIsFatal ==
    \A i \in DOMAIN calls :
        (calls[i].op = "Cluster" /\ calls[i].ret # <<>>)
            => /\ pc = "done"
               /\ err = calls[i].ret
               /\ \A j \in DOMAIN calls :
                    calls[j].op \notin {"Create", "DockerNew", "Port", "LocalNew", "Install"}

C5_Witness ==
    /\ pc = "done"
    /\ \E i \in DOMAIN calls : calls[i].op = "Cluster" /\ calls[i].ret # <<>>

\* C6: when no cluster exists and some volume spec is malformed the invocation
\* returns the validation error of the first malformed spec, and neither
\* cluster creation nor the installer is called; no mount is kept.
C6_MountValidationFailsFast ==
    (cluster = "absent" /\ \E k \in DOMAIN flagExtraVolumeMounts :
                              ~WellFormed(flagExtraVolumeMounts[k]))
        => /\ pc = "done"
           /\ err = ErrVolume(FirstMalformed(flagExtraVolumeMounts))
           /\ extraVolumeMounts = <<>>
           /\ \A j \in DOMAIN calls : calls[j].op \notin {"Create", "LocalNew", "Install"}

C6_Witness ==
    /\ cluster = "absent"
    /\ Len(flagExtraVolumeMounts) = 2
    /\ WellFormed(flagExtraVolumeMounts[1])
    /\ ~WellFormed(flagExtraVolumeMounts[2])
    /\ pc = "done"

C8_CreateFailureFatalNoRetry ==
    /\ Len(CallsOf("Create")) <= 1
    /\ \A i \in DOMAIN calls :
        (calls[i].op = "Create" /\ calls[i].ret # <<>>)
            => /\ pc = "done"
               /\ err = calls[i].ret
               /\ ~Called("LocalNew")
               /\ ~Called("Install")

C8_Witness ==
    /\ pc = "done"
    /\ \E i \in DOMAIN calls : calls[i].op = "Create" /\ calls[i].ret # <<>>

CredentialsAllAbsent ==
    opts.DockerUser = "" /\ opts.DockerPass = "" /\ opts.DockerEmail = ""
CredentialsAllPresent ==
    opts.DockerUser # "" /\ opts.DockerPass # "" /\ opts.DockerEmail # ""

\* C9: whenever the installer is run, the registry user name, password and
\* email of the options are all empty or all non-empty.
C9_RegistryCredentialGroup ==
    (pc = "Install" \/ Called("Install")) => (CredentialsAllAbsent \/ CredentialsAllPresent)

\* C10: an invocation started after an invocation created the cluster, with the
\* same flags, and in which no collaborator other than the port-availability
\* check reports an error, does not end before it has taken the validate path
\* and reached the installer with the port the cluster was created with, and
\* never calls cluster creation.
C10_IdempotentOnRetry ==
    (/\ afterCreate
     /\ createdWith # <<>>
     /\ requestedPort = createdWith[1].port
     /\ flagExtraVolumeMounts = createdWith[1].mounts
     /\ \A i \in DOMAIN calls : calls[i].op # "portAvailable" => calls[i].ret = <<>>)
        => /\ ~Called("Create")
           /\ cluster # "absent"
           /\ pc = "done" => (cluster = "exists" /\ ReachesInstallWith(clusterPort))

\* C11: when the port query on the existing cluster succeeds with the requested
\* port itself, no warning of any kind is printed, the cluster is not
\* created, and the invocation does not return before the installer, which is
\* initialised and run with the requested port.
C11_MatchingPortNoWarning ==
    \A i \in DOMAIN calls :
        (calls[i].op = "Port" /\ calls[i].ret = <<>> /\ calls[i].port = requestedPort)
            => /\ cluster = "exists"
               /\ warnings = <<>>
               /\ ~Called("Create")
               /\ ReachesInstallWith(requestedPort)

C11_Witness ==
    /\ pc = "done"
    /\ err = <<>>
    /\ Succeeded("Install")
    /\ warnings = <<>>
    /\ \E i \in DOMAIN calls :
        calls[i].op = "Port" /\ calls[i].ret = <<>> /\ calls[i].port = requestedPort

\* C12: parseVolumeMounts applied to a list in which every spec has exactly one
\* separator returns no error and a list, not nil, of the same length whose
\* i-th mount has the text before the separator of the i-th spec as HostPath
\* and the text after it as ContainerPath, either of which may be empty; the
\* empty list gives the empty list.
C12_ParseWellFormed ==
    (/\ fnArgs.fn = "parseVolumeMounts"
     /\ \A i \in DOMAIN fnArgs.specs : WellFormed(fnArgs.specs[i]))
        => /\ fnResult.err = <<>>
           /\ ~fnResult.isNil
           /\ Len(fnResult.mounts) = Len(fnArgs.specs)
           /\ \A i \in DOMAIN fnArgs.specs :
                fnResult.mounts[i] = ExpectedMount(fnArgs.specs[i])

C12_Witness ==
    /\ fnArgs.fn = "parseVolumeMounts"
    /\ Len(fnArgs.specs) = 2
    /\ \A i \in DOMAIN fnArgs.specs : WellFormed(fnArgs.specs[i])
    /\ fnArgs.specs[1] # fnArgs.specs[2]
    /\ fnResult.err = <<>>
    /\ fnResult.mounts[1].HostPath = <<>>
    /\ fnResult.mounts[2].HostPath # <<>>

\* C13: parseVolumeMounts applied to a list with a spec that has no separator
\* or more than one returns nil, not the mounts parsed so far, and the error
\* that names the first such spec of the list.
C13_ParseMalformed ==
    (/\ fnArgs.fn = "parseVolumeMounts"
     /\ \E i \in DOMAIN fnArgs.specs : ~WellFormed(fnArgs.specs[i]))
        => /\ fnResult.isNil
           /\ fnResult.mounts = <<>>
           /\ fnResult.err = ErrVolume(FirstMalformed(fnArgs.specs))

C13_Witness ==
    /\ fnArgs.fn = "parseVolumeMounts"
    /\ Len(fnArgs.specs) = 2
    /\ WellFormed(fnArgs.specs[1])
    /\ SeparatorCount(fnArgs.specs[2]) >= 2
    /\ fnResult.isNil
    /\ fnResult.err = ErrVolume(fnArgs.specs[2])

\* C14: after envOverride a field holds the value of its environment variable
\* when that value is not empty, whatever the field held, and what it held
\* otherwise; overriding again from the same environment changes nothing.
\* Each of the four docker options is overridden from its own variable.
C14_EnvOverride ==
    /\ fnArgs.fn = "envOverride"
        => /\ fnArgs.v # "" => fnResult.once = fnArgs.v
           /\ fnArgs.v = "" => fnResult.once = fnArgs.original
           /\ fnResult.twice = fnResult.once
    /\ fnArgs.fn = "InstallOpts"
        => LET Overridden(flag, v) == IF v # "" THEN v ELSE flag
           IN /\ fnResult.DockerServer = Overridden(fnArgs.server, fnArgs.env.server)
              /\ fnResult.DockerUser = Overridden(fnArgs.flags.user, fnArgs.env.user)
              /\ fnResult.DockerPass = Overridden(fnArgs.flags.pass, fnArgs.env.pass)
              /\ fnResult.DockerEmail = Overridden(fnArgs.flags.email, fnArgs.env.email)

C14_Witness ==
    /\ fnArgs.fn = "InstallOpts"
    /\ fnArgs.flags.user = "flag"
    /\ fnArgs.env.user = "env"
    /\ fnArgs.flags.pass = "flag"
    /\ fnArgs.env.pass = ""
    /\ fnResult.DockerUser = "env"
    /\ fnResult.DockerPass = "flag"

\* C15: the chart version of the assembled options is empty when
\* --chart-version is exactly "latest" and is the flag's value otherwise, the
\* empty value and values that differ from "latest" in case included.
C15_ChartVersionNormalized ==
    fnArgs.fn = "InstallOpts"
        => fnResult.HelmChartVersion
             = (IF fnArgs.chartVersion = "latest" THEN "" ELSE fnArgs.chartVersion)

C15_Witness ==
    /\ fnArgs.fn = "InstallOpts"
    /\ fnArgs.chartVersion = "Latest"
    /\ fnResult.HelmChartVersion = "Latest"

\* C16: an invocation that has ended is recorded by telClient.Wrap as the
\* telemetry.Install operation: as a failure when any stage, a pre-check
\* included, returned an error, and as a success exactly when none did.
C16_SingleObservableOperation ==
    pc = "done" => telemetry = (IF err = <<>> THEN "success" ELSE "failed")

\* C17: when the cluster exists and the provider is not kind, docker is not
\* connected to, the port is not queried, no warning is printed, the cluster
\* is not created, and the invocation goes on to the installer, which is
\* initialised and run with the requested port.
C17_ReconciliationProviderGated ==
    (cluster = "exists" /\ providerName # Kind)
        => /\ ~Called("DockerNew")
           /\ ~Called("Port")
           /\ warnings = <<>>
           /\ ~Called("Create")
           /\ ReachesInstallWith(requestedPort)

C17_Witness ==
    /\ cluster = "exists"
    /\ providerName # Kind
    /\ clusterPort # requestedPort
    /\ dockerClient = "nil"
    /\ Succeeded("Install")
    /\ pc = "done"
    /\ err = <<>>

\* C18: once cmd.Context() is cancelled, every later existence query, cluster
\* creation, docker connection, port query and install returns the
\* cancellation error, so that no cluster is created and nothing installed
\* after the cancellation, and the invocation ends with an error that wraps
\* the cancellation error.
C18_CancellationCoversEveryCall ==
    /\ \A i \in DOMAIN calls : \A j \in DOMAIN calls :
        (/\ calls[i].op = "Cancel"
         /\ j > i
         /\ calls[j].op \in {"Cluster", "Create", "DockerNew", "Port", "Install"})
            => calls[j].ret = ErrCanceled
    /\ (Cancelled /\ pc = "done")
            => (err # <<>> /\ err[Len(err)] = ErrCanceled[1])

C20_SuccessMeansInstalled ==
    /\ (pc = "done" /\ err = <<>>)
            => /\ Len(CallsOf("Install")) = 1
               /\ CallsOf("Install")[1].ret = <<>>
    /\ \A i \in DOMAIN calls :
        (/\ calls[i].op \in {"Cluster", "DockerNew", "Create", "LocalNew", "Install"}
         /\ calls[i].ret # <<>>)
            => /\ pc = "done"
               /\ err # <<>>
               /\ i = Len(calls)
    /\ (cluster = "absent" /\ \E k \in DOMAIN flagExtraVolumeMounts :
                                ~WellFormed(flagExtraVolumeMounts[k]))
            => /\ pc = "done"
               /\ err # <<>>
               /\ calls[Len(calls)].op = "Cluster"

C20_Witness ==
    /\ pc = "done"
    /\ err = <<>>
    /\ Len(CallsOf("Install")) = 1
    /\ Succeeded("DockerNew")
    /\ Succeeded("Port")
    /\ Succeeded("LocalNew")
====
